---- MODULE Spec2Model ----
(***************************************************************************)
(* A model of piet's backend-adaptation layer:                             *)
(*   - piet-common/src/cairo_back.rs: Device::bitmap_target and            *)
(*     BitmapTarget::{render_context, get_raw_pixels, into_raw_pixels};    *)
(*   - piet-coregraphics/src/lib.rs: CoreGraphicsContext's draw            *)
(*     operations, save/restore, set_stroke and set_path.                  *)
(* Real numbers (f64) are modelled by integers; path coordinates are       *)
(* multiples of 3 so that the factor 2/3 of degree elevation is exact.     *)
(***************************************************************************)
EXTENDS Integers, Sequences, FiniteSets, TLC

VARIABLES
    target,   \* Option<BitmapTarget>: <<>> or <<[width, height, stride, data, dirty, cr]>>
    bcall,    \* the most recent call on Device / BitmapTarget and its outcome
    nDraws,   \* number of drawing calls made on the current target
    ctx,      \* the CGContext a CoreGraphicsContext draws on
    snaps,    \* the graphics state at each save() not yet restored (history)
    gcall,    \* the most recent call on the CoreGraphicsContext and its outcome
    nOps,     \* number of calls made on the CoreGraphicsContext
    shape,    \* set_path: the path elements being converted
    pos,      \* set_path: how many of them the loop has consumed
    last      \* set_path: the local variable `last`

bvars == <<target, bcall, nDraws>>
gvars == <<ctx, snaps, gcall, nOps>>
pvars == <<shape, pos, last>>
vars == <<target, bcall, nDraws, ctx, snaps, gcall, nOps, shape, pos, last>>

----------------------------------------------------------------------------
(* Bounds of the model *)

MaxDim == 2
MaxPad == 1
MaxDraws == 1
MaxOps == 3
MaxPathLen == 3

----------------------------------------------------------------------------
(* Option values *)

None == <<>>
Some(x) == <<x>>
IsSome(o) == o # <<>>
Unwrap(o) == o[1]

----------------------------------------------------------------------------
(* piet-common/src/cairo_back.rs *)

\* piet::ImageFormat
ImageFormats == {"Rgb", "RgbaSeparate", "RgbaPremul"}

\* pix_scale values offered to bitmap_target
Scales == {1, 2}

\* Premultiplied colours a drawing call may paint; every channel of every
\* colour is a different byte, and none is a GarbageBytes value.
Colors == { [r |-> 255, g |-> 1, b |-> 2, a |-> 254],
            [r |-> 10,  g |-> 20, b |-> 30, a |-> 40] }

\* What the backend may leave in the padding bytes of a row.
GarbageBytes == {170}

\* Format::ARgb32 in memory on a little-endian host: B, G, R, A.
NativeBytes(c) == <<c.b, c.g, c.r, c.a>>

\* Context::new(&surface): identity matrix, bound to the given surface.
ContextNew(surf) == [bound |-> surf, scale |-> 1]

\* cr.scale(s, s)
ContextScale(cr, s) == [cr EXCEPT !.scale = cr.scale * s]

\* ImageSurface::create(Format::ARgb32, width, height) when it succeeds: a
\* zeroed surface whose rows are `stride` bytes apart, stride >= width*4.
ImageSurfaceCreate(width, height, pad, garbage) ==
    LET stride == width * 4 + pad * 4
    IN  [ width  |-> width,
          height |-> height,
          stride |-> stride,
          data   |-> [i \in 1..(stride * height) |->
                         IF ((i - 1) % stride) < width * 4 THEN 0 ELSE garbage],
          dirty  |-> FALSE ]

NoCall ==
    [op |-> "none", fmt |-> "none", result |-> "none", bytes |-> <<>>,
     before |-> None]

\* Device::bitmap_target
\* `created` is the backend's answer to ImageSurface::create.
BitmapTargetResult(width, height, pix_scale, pad, garbage, created) ==
    IF ~created
    THEN [result |-> "panic", target |-> None]          \* .unwrap() of an Err
    ELSE LET surface == ImageSurfaceCreate(width, height, pad, garbage)
             cr      == ContextScale(ContextNew("surface"), pix_scale)
         IN  [result |-> "Ok",
              target |-> Some([surface EXCEPT !.dirty = FALSE] @@ [cr |-> cr])]

\* The model follows one BitmapTarget from its creation to its consumption;
\* a creation that failed may be tried again.
BitmapTargetOp ==
    /\ target = None
    /\ bcall.op \in {"none", "bitmap_target"}
    /\ \E width \in 0..MaxDim, height \in 0..MaxDim, pix_scale \in Scales,
          pad \in 0..MaxPad, garbage \in GarbageBytes, created \in BOOLEAN :
         LET r == BitmapTargetResult(width, height, pix_scale, pad, garbage, created)
         IN  /\ target' = r.target
             /\ bcall' = [NoCall EXCEPT !.op = "bitmap_target", !.result = r.result]
    /\ nDraws' = 0
    /\ UNCHANGED <<gvars, pvars>>

\* BitmapTarget::render_context, and one drawing call through the returned
\* context: the unit square at logical (lx, ly) is filled with colour c.  The
\* context's matrix maps it to physical pixels of the surface the context is
\* bound to; a context bound to the zero-sized placeholder paints nothing.
Covered(t, lx, ly, x, y) ==
    /\ x \in (lx * t.cr.scale)..(lx * t.cr.scale + t.cr.scale - 1)
    /\ y \in (ly * t.cr.scale)..(ly * t.cr.scale + t.cr.scale - 1)
    /\ x < t.width
    /\ y < t.height

RenderContextFill(t, lx, ly, c) ==
    IF t.cr.bound # "surface"
    THEN t
    ELSE [t EXCEPT
            !.data = [i \in 1..Len(t.data) |->
                        LET o == i - 1
                            y == o \div t.stride
                            x == (o % t.stride) \div 4
                            k == o % 4
                        IN  IF Covered(t, lx, ly, x, y)
                            THEN NativeBytes(c)[k + 1]
                            ELSE t.data[i]],
            !.dirty = TRUE]

DrawOp ==
    /\ IsSome(target)
    /\ nDraws < MaxDraws
    /\ \E lx \in 0..(MaxDim - 1), ly \in 0..(MaxDim - 1), c \in Colors :
         target' = Some(RenderContextFill(Unwrap(target), lx, ly, c))
    /\ bcall' = [NoCall EXCEPT !.op = "draw", !.result = "unit",
                               !.before = target]
    /\ nDraws' = nDraws + 1
    /\ UNCHANGED <<gvars, pvars>>

\* A format check that lets every format through.
FormatAny(fmt) == TRUE

\* get_raw_pixels, line 112: the only format that is converted
FormatSupported(fmt) == fmt = "RgbaPremul"

\* A buffer sized by the backend's rows instead of the packed rows.
RawLenPadded(width, height, stride) == stride * height

\* get_raw_pixels, line 131: the length of raw_data
RawLen(width, height, stride) == width * height * 4

\* A source offset that takes the native rows to be packed.
SrcOffPacked(y, stride, width) == y * width * 4

\* get_raw_pixels, lines 137-138: where row y starts in buf and in raw_data
SrcOff(y, stride, width) == y * stride
DstOff(y, stride, width) == y * width * 4

\* get_raw_pixels, lines 140-143 (offsets are 0-based, sequences 1-based)
WritePixel(raw, buf, src_off, dst_off, x) ==
    [raw EXCEPT ![dst_off + x * 4 + 0 + 1] = buf[src_off + x * 4 + 2 + 1],
                ![dst_off + x * 4 + 1 + 1] = buf[src_off + x * 4 + 1 + 1],
                ![dst_off + x * 4 + 2 + 1] = buf[src_off + x * 4 + 0 + 1],
                ![dst_off + x * 4 + 3 + 1] = buf[src_off + x * 4 + 3 + 1]]

\* get_raw_pixels, lines 139-144: for x in 0..width
RECURSIVE PixelLoop(_, _, _, _, _, _)
PixelLoop(raw, buf, src_off, dst_off, width, x) ==
    IF x >= width
    THEN raw
    ELSE PixelLoop(WritePixel(raw, buf, src_off, dst_off, x),
                   buf, src_off, dst_off, width, x + 1)

\* get_raw_pixels, lines 136-145: for y in 0..height
RECURSIVE RowLoop(_, _, _, _, _, _)
RowLoop(raw, buf, stride, width, height, y) ==
    IF y >= height
    THEN raw
    ELSE RowLoop(PixelLoop(raw, buf, SrcOff(y, stride, width),
                           DstOff(y, stride, width), width, 0),
                 buf, stride, width, height, y + 1)

\* BitmapTarget::get_raw_pixels on target t.
\* `placeholder` is the backend's answer to ImageSurface::create(ARgb32, 0, 0)
\* and `readable` its answer to surface.get_data().
GetRawPixels(t, fmt, placeholder, readable) ==
    IF ~FormatSupported(fmt)
    THEN [result |-> "NotSupported", bytes |-> <<>>, target |-> Some(t)]
    ELSE IF ~placeholder
    THEN [result |-> "panic", bytes |-> <<>>, target |-> Some(t)]
    ELSE LET swapped == [t EXCEPT !.cr = ContextNew("placeholder")]
             flushed == [swapped EXCEPT !.dirty = FALSE]
             stride  == flushed.stride
             width   == flushed.width
             height  == flushed.height
             zeroed  == [i \in 1..RawLen(width, height, stride) |-> 0]
         IN  IF ~readable
             THEN [result |-> "BackendFailure", bytes |-> <<>>,
                   target |-> Some(flushed)]
             ELSE [result |-> "Ok",
                   bytes  |-> RowLoop(zeroed, flushed.data, stride, width, height, 0),
                   target |-> Some([flushed EXCEPT !.cr = ContextNew("surface")])]

GetRawPixelsOp ==
    /\ IsSome(target)
    /\ \E fmt \in ImageFormats, placeholder \in BOOLEAN, readable \in BOOLEAN :
         LET r == GetRawPixels(Unwrap(target), fmt, placeholder, readable)
         IN  /\ target' = r.target
             /\ bcall' = [op |-> "get_raw_pixels", fmt |-> fmt,
                          result |-> r.result, bytes |-> r.bytes,
                          before |-> target]
    /\ UNCHANGED <<nDraws, gvars, pvars>>

\* BitmapTarget::into_raw_pixels: get_raw_pixels on self, which is then dropped.
IntoRawPixelsOp ==
    /\ IsSome(target)
    /\ \E fmt \in ImageFormats, placeholder \in BOOLEAN, readable \in BOOLEAN :
         LET r == GetRawPixels(Unwrap(target), fmt, placeholder, readable)
         IN  bcall' = [op |-> "into_raw_pixels", fmt |-> fmt,
                       result |-> r.result, bytes |-> r.bytes,
                       before |-> target]
    /\ target' = None
    /\ UNCHANGED <<nDraws, gvars, pvars>>

----------------------------------------------------------------------------
(* piet-coregraphics/src/lib.rs *)

\* kurbo::Point::default()
PointDefault == <<0, 0>>

\* Points of the shapes offered to the draw operations.
PtA == <<3, 6>>
PtB == <<9, -3>>
Points == {PtA, PtB}

\* kurbo::PathEl
MoveTo(p) == <<"MoveTo", p>>
LineTo(p) == <<"LineTo", p>>
QuadTo(p1, p2) == <<"QuadTo", p1, p2>>
CurveTo(p1, p2, p3) == <<"CurveTo", p1, p2, p3>>
ClosePath == <<"ClosePath">>

PathEls ==
    {MoveTo(p) : p \in Points} \cup {LineTo(p) : p \in Points}
        \cup {QuadTo(p1, p2) : p1 \in Points, p2 \in Points}
        \cup {CurveTo(p1, p2, p3) : p1 \in Points, p2 \in Points, p3 \in Points}
        \cup {ClosePath}

\* Brush (lines 34-38); Solid carries color.as_rgba_u32().
Solid(rgba) == [kind |-> "Solid", rgba |-> rgba]
Gradient == [kind |-> "Gradient", rgba |-> 0]
NoBrush == [kind |-> "none", rgba |-> 0]

\* piet::StrokeStyle: each field is an Option.
StrokeStyle(line_join, line_cap, dash, miter_limit) ==
    [line_join |-> line_join, line_cap |-> line_cap, dash |-> dash,
     miter_limit |-> miter_limit]

\* The state of the CGContext.  A colour is its four components, each the
\* numerator of a fraction of 255.
InitCtx ==
    [ path       |-> <<>>,
      ctm        |-> "identity",
      clip       |-> <<>>,
      fill       |-> <<0, 0, 0, 255>>,
      stroke     |-> <<0, 0, 0, 255>>,
      lineWidth  |-> 1,
      lineJoin   |-> "CGLineJoinMiter",
      lineCap    |-> "CGLineCapButt",
      miterLimit |-> 10,
      dash       |-> [offset |-> 0, lengths |-> <<>>],
      gstack     |-> <<>> ]

\* What CGContextSaveGState saves: everything but the current path.
GState(c) ==
    [ ctm |-> c.ctm, clip |-> c.clip, fill |-> c.fill, stroke |-> c.stroke,
      lineWidth |-> c.lineWidth, lineJoin |-> c.lineJoin, lineCap |-> c.lineCap,
      miterLimit |-> c.miterLimit, dash |-> c.dash ]

\* The stroke parameters of the CGContext.
StrokeState(c) ==
    [ lineWidth |-> c.lineWidth, lineJoin |-> c.lineJoin, lineCap |-> c.lineCap,
      miterLimit |-> c.miterLimit, dash |-> c.dash ]

\* A handler runs on m = [ctx, log, panicked]: the CGContext, the backend
\* calls the handler has made so far, and whether it has panicked.
Start(c) == [ctx |-> c, log |-> <<>>, panicked |-> FALSE]
Call(m, c, entry) == [m EXCEPT !.ctx = c, !.log = Append(m.log, entry)]
Panic(m) == [m EXCEPT !.panicked = TRUE]

\* The CGContext calls the handlers make.
CGBeginPath(m) == Call(m, [m.ctx EXCEPT !.path = <<>>], <<"begin_path">>)
CGMoveToPoint(m, x, y) ==
    Call(m, [m.ctx EXCEPT !.path = Append(@, <<"move_to_point", x, y>>)],
         <<"move_to_point", x, y>>)
CGAddLineToPoint(m, x, y) ==
    Call(m, [m.ctx EXCEPT !.path = Append(@, <<"add_line_to_point", x, y>>)],
         <<"add_line_to_point", x, y>>)
CGAddCurveToPoint(m, x1, y1, x2, y2, x, y) ==
    Call(m, [m.ctx EXCEPT !.path =
                 Append(@, <<"add_curve_to_point", x1, y1, x2, y2, x, y>>)],
         <<"add_curve_to_point", x1, y1, x2, y2, x, y>>)
CGClosePath(m) ==
    Call(m, [m.ctx EXCEPT !.path = Append(@, <<"close_path">>)], <<"close_path">>)
CGSetRGBFillColor(m, r, g, b, a) ==
    Call(m, [m.ctx EXCEPT !.fill = <<r, g, b, a>>],
         <<"set_rgb_fill_color", r, g, b, a>>)
CGSetRGBStrokeColor(m, r, g, b, a) ==
    Call(m, [m.ctx EXCEPT !.stroke = <<r, g, b, a>>],
         <<"set_rgb_stroke_color", r, g, b, a>>)
CGFillPath(m) == Call(m, [m.ctx EXCEPT !.path = <<>>], <<"fill_path">>)
CGEOFillPath(m) == Call(m, [m.ctx EXCEPT !.path = <<>>], <<"eo_fill_path">>)
CGStrokePath(m) == Call(m, [m.ctx EXCEPT !.path = <<>>], <<"stroke_path">>)
CGClip(m) ==
    Call(m, [m.ctx EXCEPT !.clip = Append(@, m.ctx.path), !.path = <<>>], <<"clip">>)
CGSetLineWidth(m, w) == Call(m, [m.ctx EXCEPT !.lineWidth = w], <<"set_line_width", w>>)
CGSetLineJoin(m, j) == Call(m, [m.ctx EXCEPT !.lineJoin = j], <<"set_line_join", j>>)
CGSetLineCap(m, c) == Call(m, [m.ctx EXCEPT !.lineCap = c], <<"set_line_cap", c>>)
CGSetMiterLimit(m, l) ==
    Call(m, [m.ctx EXCEPT !.miterLimit = l], <<"set_miter_limit", l>>)
CGSetLineDash(m, offset, lengths) ==
    Call(m, [m.ctx EXCEPT !.dash = [offset |-> offset, lengths |-> lengths]],
         <<"set_line_dash", offset, lengths>>)
CGSave(m) == Call(m, [m.ctx EXCEPT !.gstack = Append(@, GState(m.ctx))], <<"save">>)
\* Restoring with nothing saved leaves the graphics state as it is.
CGRestore(m) ==
    LET c == m.ctx
        n == Len(c.gstack)
    IN  IF n = 0
        THEN Call(m, c, <<"restore">>)
        ELSE Call(m, c.gstack[n] @@ [path   |-> c.path,
                                      gstack |-> SubSeq(c.gstack, 1, n - 1)],
                  <<"restore">>)

\* byte_to_frac (lines 406-408): (byte & 255) * (1 / 255), as a numerator
ByteToFrac(byte) == byte % 256

\* rgba >> n on a u32
Shr(rgba, n) == rgba \div (2 ^ n)

\* set_fill_brush (lines 326-336)
SetFillBrush(m, brush) ==
    IF brush.kind = "Solid"
    THEN CGSetRGBFillColor(m, ByteToFrac(Shr(brush.rgba, 24)),
                              ByteToFrac(Shr(brush.rgba, 16)),
                              ByteToFrac(Shr(brush.rgba, 8)),
                              ByteToFrac(brush.rgba))
    ELSE Panic(m)                                   \* unimplemented!()

\* set_stroke_brush (lines 338-348)
SetStrokeBrush(m, brush) ==
    IF brush.kind = "Solid"
    THEN CGSetRGBStrokeColor(m, ByteToFrac(Shr(brush.rgba, 24)),
                                ByteToFrac(Shr(brush.rgba, 16)),
                                ByteToFrac(Shr(brush.rgba, 8)),
                                ByteToFrac(brush.rgba))
    ELSE Panic(m)                                   \* unimplemented!()

\* convert_line_join (lines 305-311)
ConvertLineJoin(line_join) ==
    CASE line_join = "Miter" -> "CGLineJoinMiter"
      [] line_join = "Round" -> "CGLineJoinRound"
      [] line_join = "Bevel" -> "CGLineJoinBevel"

\* convert_line_cap (lines 313-319)
ConvertLineCap(line_cap) ==
    CASE line_cap = "Butt" -> "CGLineCapButt"
      [] line_cap = "Round" -> "CGLineCapRound"
      [] line_cap = "Square" -> "CGLineCapSquare"

\* Option::and_then on the optional style, then unwrap_or
AndThen(style, field) == IF IsSome(style) THEN Unwrap(style)[field] ELSE None
UnwrapOr(o, default) == IF IsSome(o) THEN Unwrap(o) ELSE default

\* set_stroke, line 364: the miter limit of a style that sets none
DefaultMiterLimit == 10

\* A dash that is set when the style has one and otherwise left as it was.
SetStrokeDashKept(m, style) ==
    LET dash == AndThen(style, "dash")
    IN  IF dash = None
        THEN m
        ELSE CGSetLineDash(m, Unwrap(dash)[2], Unwrap(dash)[1])

\* set_stroke, lines 367-370: the dash is cleared or set
SetStrokeDash(m, style) ==
    LET dash == AndThen(style, "dash")
    IN  IF dash = None
        THEN CGSetLineDash(m, 0, <<>>)
        ELSE CGSetLineDash(m, Unwrap(dash)[2], Unwrap(dash)[1])

\* set_stroke (lines 351-371)
SetStroke(m, width, style) ==
    LET m1 == CGSetLineWidth(m, width)
        line_join == UnwrapOr(AndThen(style, "line_join"), "Miter")
        m2 == CGSetLineJoin(m1, ConvertLineJoin(line_join))
        line_cap == UnwrapOr(AndThen(style, "line_cap"), "Butt")
        m3 == CGSetLineCap(m2, ConvertLineCap(line_cap))
        miter_limit == UnwrapOr(AndThen(style, "miter_limit"), DefaultMiterLimit)
        m4 == CGSetMiterLimit(m3, miter_limit)
    IN  SetStrokeDash(m4, style)

\* QuadBez::new(p0, p1, p2).raise(): the cubic's two inner control points,
\* p0 + 2/3 (p1 - p0) and p2 + 2/3 (p1 - p2).
Raise(p0, p1, p2) ==
    [ p1 |-> <<p0[1] + (2 * (p1[1] - p0[1])) \div 3,
               p0[2] + (2 * (p1[2] - p0[2])) \div 3>>,
      p2 |-> <<p2[1] + (2 * (p1[1] - p2[1])) \div 3,
               p2[2] + (2 * (p1[2] - p2[2])) \div 3>> ]

\* A loop turn whose QuadTo arm does not move `last`.
PathElStepStale(m, lst, el) ==
    CASE el[1] = "MoveTo" ->
            [m |-> CGMoveToPoint(m, el[2][1], el[2][2]), last |-> el[2]]
      [] el[1] = "LineTo" ->
            [m |-> CGAddLineToPoint(m, el[2][1], el[2][2]), last |-> el[2]]
      [] el[1] = "QuadTo" ->
            LET c == Raise(lst, el[2], el[3])
            IN  [m |-> CGAddCurveToPoint(m, c.p1[1], c.p1[2], c.p2[1], c.p2[2],
                                         el[3][1], el[3][2]),
                 last |-> lst]
      [] el[1] = "CurveTo" ->
            [m |-> CGAddCurveToPoint(m, el[2][1], el[2][2], el[3][1], el[3][2],
                                     el[4][1], el[4][2]),
             last |-> el[4]]
      [] el[1] = "ClosePath" ->
            [m |-> CGClosePath(m), last |-> lst]

\* set_path, lines 379-401: one turn of the loop, on m and the local `last`
PathElStep(m, lst, el) ==
    CASE el[1] = "MoveTo" ->
            [m |-> CGMoveToPoint(m, el[2][1], el[2][2]), last |-> el[2]]
      [] el[1] = "LineTo" ->
            [m |-> CGAddLineToPoint(m, el[2][1], el[2][2]), last |-> el[2]]
      [] el[1] = "QuadTo" ->
            LET c == Raise(lst, el[2], el[3])
            IN  [m |-> CGAddCurveToPoint(m, c.p1[1], c.p1[2], c.p2[1], c.p2[2],
                                         el[3][1], el[3][2]),
                 last |-> el[3]]
      [] el[1] = "CurveTo" ->
            [m |-> CGAddCurveToPoint(m, el[2][1], el[2][2], el[3][1], el[3][2],
                                     el[4][1], el[4][2]),
             last |-> el[4]]
      [] el[1] = "ClosePath" ->
            [m |-> CGClosePath(m), last |-> lst]

\* set_path, lines 378-402: for el in shape.to_bez_path(1e-3)
RECURSIVE SetPathLoop(_, _, _, _)
SetPathLoop(m, lst, els, i) ==
    IF i > Len(els)
    THEN m
    ELSE LET r == PathElStep(m, lst, els[i])
         IN  SetPathLoop(r.m, r.last, els, i + 1)

\* set_path (lines 373-403)
SetPath(m, els) == SetPathLoop(CGBeginPath(m), PointDefault, els, 1)

\* f64::round_into() to CGFloat, which is f64
RoundInto(width) == width

\* fill (lines 118-123)
Fill(c, els, brush) ==
    LET m1 == SetPath(Start(c), els)
        m2 == SetFillBrush(m1, brush)
    IN  IF m2.panicked THEN m2 ELSE CGFillPath(m2)

\* fill_even_odd (lines 125-130)
FillEvenOdd(c, els, brush) ==
    LET m1 == SetPath(Start(c), els)
        m2 == SetFillBrush(m1, brush)
    IN  IF m2.panicked THEN m2 ELSE CGEOFillPath(m2)

\* clip (lines 132-135)
Clip(c, els) == CGClip(SetPath(Start(c), els))

\* stroke (lines 137-143) and stroke_styled (lines 145-157); style is
\* None for stroke and Some(style) for stroke_styled
Stroke(c, els, brush, width, style) ==
    LET m1 == SetPath(Start(c), els)
        m2 == SetStroke(m1, RoundInto(width), style)
        m3 == SetStrokeBrush(m2, brush)
    IN  IF m3.panicked THEN m3 ELSE CGStrokePath(m3)

\* save (lines 167-170) and restore (lines 172-175)
Save(c) == [m |-> CGSave(Start(c)), result |-> "Ok"]
Restore(c) == [m |-> CGRestore(Start(c)), result |-> "Ok"]

NoGCall ==
    [op |-> "none", shape |-> <<>>, brush |-> NoBrush, width |-> 0,
     style |-> None, result |-> "none", log |-> <<>>, before |-> InitCtx,
     popped |-> None]

\* A handler that returns () or panics has run to m.
Done(op, els, brush, width, style, m) ==
    /\ ctx' = m.ctx
    /\ gcall' = [NoGCall EXCEPT !.op = op, !.shape = els, !.brush = brush,
                                !.width = width, !.style = style,
                                !.log = m.log, !.before = ctx,
                                !.result = IF m.panicked THEN "panic" ELSE "unit"]

\* Inputs of the draw operations
LineShape == <<MoveTo(PtA), LineTo(PtB)>>
QuadShape == <<MoveTo(PtB), QuadTo(PtA, PtB), ClosePath>>
Shapes == {LineShape, QuadShape}
Brushes == {Solid(270544960), Gradient}
Widths == {1, 2}
DashStyle == StrokeStyle(Some("Round"), None, Some(<<<<3, 1>>, 2>>), None)
\* Every join with no cap, every cap with no join, and one style that sets
\* both; each with and without a dash and a miter limit.
JoinsAndCaps ==
    ({None, Some("Miter"), Some("Round"), Some("Bevel")} \X {None})
        \cup ({None} \X {Some("Butt"), Some("Round"), Some("Square")})
        \cup {<<Some("Round"), Some("Square")>>}
Styles ==
    { StrokeStyle(jc[1], jc[2], d, l) :
        jc \in JoinsAndCaps,
        d \in {None, Some(<<<<3, 1>>, 2>>)},
        l \in {None, Some(4)} }
AllShapes == UNION { [1..n -> PathEls] : n \in 0..MaxPathLen }

FillWith(shapes, brushes) ==
    \E els \in shapes, brush \in brushes :
        Done("fill", els, brush, 0, None, Fill(ctx, els, brush))

FillEvenOddWith(shapes, brushes) ==
    \E els \in shapes, brush \in brushes :
        Done("fill_even_odd", els, brush, 0, None, FillEvenOdd(ctx, els, brush))

ClipWith(shapes) ==
    \E els \in shapes : Done("clip", els, NoBrush, 0, None, Clip(ctx, els))

StrokeWith(shapes, brushes, widths) ==
    \E els \in shapes, brush \in brushes, width \in widths :
        Done("stroke", els, brush, width, None,
             Stroke(ctx, els, brush, width, None))

StrokeStyledWith(shapes, brushes, widths, styles) ==
    \E els \in shapes, brush \in brushes, width \in widths, style \in styles :
        Done("stroke_styled", els, brush, width, Some(style),
             Stroke(ctx, els, brush, width, Some(style)))

Counted == nOps < MaxOps /\ nOps' = nOps + 1 /\ UNCHANGED <<bvars, pvars>>

\* The operations of a CoreGraphicsContext bound to the CGContext
FillOp == Counted /\ FillWith(Shapes, Brushes) /\ UNCHANGED snaps
FillEvenOddOp == Counted /\ FillEvenOddWith(Shapes, Brushes) /\ UNCHANGED snaps
ClipOp == Counted /\ ClipWith(Shapes) /\ UNCHANGED snaps
StrokeOp == Counted /\ StrokeWith(Shapes, Brushes, Widths) /\ UNCHANGED snaps
StrokeStyledOp ==
    Counted /\ StrokeStyledWith(Shapes, Brushes, Widths, {DashStyle})
            /\ UNCHANGED snaps

SaveOp ==
    /\ Counted
    /\ LET r == Save(ctx)
       IN  /\ ctx' = r.m.ctx
           /\ gcall' = [NoGCall EXCEPT !.op = "save", !.result = r.result,
                                       !.log = r.m.log, !.before = ctx]
    /\ snaps' = Append(snaps, GState(ctx))

RestoreOp ==
    /\ Counted
    /\ LET r == Restore(ctx)
       IN  /\ ctx' = r.m.ctx
           /\ gcall' = [NoGCall EXCEPT
                          !.op = "restore", !.result = r.result,
                          !.log = r.m.log, !.before = ctx,
                          !.popped = IF snaps = <<>> THEN None
                                     ELSE Some(snaps[Len(snaps)])]
    /\ snaps' = IF snaps = <<>> THEN snaps ELSE SubSeq(snaps, 1, Len(snaps) - 1)

\* gradient (lines 113-115) and transform (lines 181-183): unimplemented!()
UnimplementedOp ==
    /\ Counted
    /\ \E op \in {"gradient", "transform"} :
         gcall' = [NoGCall EXCEPT !.op = op, !.result = "panic", !.before = ctx]
    /\ UNCHANGED <<ctx, snaps>>

NextCG ==
    \/ FillOp
    \/ FillEvenOddOp
    \/ ClipOp
    \/ StrokeOp
    \/ StrokeStyledOp
    \/ SaveOp
    \/ RestoreOp
    \/ UnimplementedOp

\* stroke and stroke_styled over every stroke style
StrokeAnyOp ==
    /\ StrokeWith({LineShape}, {Solid(270544960)}, Widths)
    /\ UNCHANGED <<snaps, nOps, bvars, pvars>>
StrokeStyledAnyOp ==
    /\ StrokeStyledWith({LineShape}, {Solid(270544960)}, Widths, Styles)
    /\ UNCHANGED <<snaps, nOps, bvars, pvars>>

NextStroke ==
    \/ StrokeAnyOp
    \/ StrokeStyledAnyOp

\* set_path, lines 376-377, on one of the shapes of up to MaxPathLen elements
SetPathBeginOp ==
    /\ shape = <<>>
    /\ pos = 0
    /\ \E els \in AllShapes : shape' = els
    /\ ctx' = CGBeginPath(Start(ctx)).ctx
    /\ last' = PointDefault
    /\ UNCHANGED <<pos, bvars, snaps, gcall, nOps>>

\* set_path, lines 378-402: one turn of the loop
SetPathStepOp ==
    /\ pos < Len(shape)
    /\ LET r == PathElStep(Start(ctx), last, shape[pos + 1])
       IN  /\ ctx' = r.m.ctx
           /\ last' = r.last
    /\ pos' = pos + 1
    /\ UNCHANGED <<shape, bvars, snaps, gcall, nOps>>

NextPath ==
    \/ SetPathBeginOp
    \/ SetPathStepOp

Init ==
    /\ target = None
    /\ bcall = NoCall
    /\ nDraws = 0
    /\ ctx = InitCtx
    /\ snaps = <<>>
    /\ gcall = NoGCall
    /\ nOps = 0
    /\ shape = <<>>
    /\ pos = 0
    /\ last = PointDefault

NextBitmap ==
    \/ BitmapTargetOp
    \/ DrawOp
    \/ GetRawPixelsOp
    \/ IntoRawPixelsOp

\* BitmapTarget and Device
SpecBitmap == Init /\ [][NextBitmap]_vars

\* A CoreGraphicsContext, up to MaxOps calls
SpecCG == Init /\ [][NextCG]_vars

\* Stroke style translation over every stroke style
SpecStroke == Init /\ [][NextStroke]_vars

\* Path conversion, element by element
SpecPath == Init /\ [][NextPath]_vars

----------------------------------------------------------------------------
(* Claims about BitmapTarget and Device, checked under SpecBitmap *)

Extracted == bcall.op \in {"get_raw_pixels", "into_raw_pixels"}
Before == Unwrap(bcall.before)

\* C1: a successful get_raw_pixels / into_raw_pixels of a surface of width W
\* and height H returns exactly W*H*4 bytes, whatever the row stride is.
C1_BufferSize ==
    (Extracted /\ bcall.result = "Ok")
        => Len(bcall.bytes) = Before.width * Before.height * 4

\* C1 witness: a successful extraction from a surface whose rows are padded.
C1_Witness ==
    /\ Extracted
    /\ bcall.result = "Ok"
    /\ Before.width > 0
    /\ Before.height > 1
    /\ Before.stride > Before.width * 4

\* C2: for every pixel (x, y) the output holds at (y*W + x)*4 the bytes
\* R, G, B, A of that pixel, read from the native buffer at y*stride + x*4
\* where they lie in B, G, R, A order; alpha is passed through, and no padding
\* byte of the native buffer appears in the output.
C2_ChannelOrder ==
    (Extracted /\ bcall.result = "Ok")
        => /\ \A y \in 0..(Before.height - 1), x \in 0..(Before.width - 1) :
                LET out == (y * Before.width + x) * 4
                    nat == y * Before.stride + x * 4
                IN  /\ out + 4 <= Len(bcall.bytes)
                    /\ bcall.bytes[out + 0 + 1] = Before.data[nat + 2 + 1]
                    /\ bcall.bytes[out + 1 + 1] = Before.data[nat + 1 + 1]
                    /\ bcall.bytes[out + 2 + 1] = Before.data[nat + 0 + 1]
                    /\ bcall.bytes[out + 3 + 1] = Before.data[nat + 3 + 1]
           /\ \A i \in 1..Len(bcall.bytes) : bcall.bytes[i] \notin GarbageBytes

\* C2 witness: a painted pixel of the second row of a padded surface comes
\* out as its colour's R, G, B, A.
C2_Witness ==
    /\ Extracted
    /\ bcall.result = "Ok"
    /\ Before.stride > Before.width * 4
    /\ \E c \in Colors, x \in 0..(Before.width - 1), y \in 1..(Before.height - 1) :
         SubSeq(bcall.bytes, (y * Before.width + x) * 4 + 1,
                             (y * Before.width + x) * 4 + 4) = <<c.r, c.g, c.b, c.a>>

\* C3: with any format other than RgbaPremul, get_raw_pixels and
\* into_raw_pixels return NotSupported and extract nothing: no buffer is
\* produced and the target (its surface, its flush state, its drawing
\* context) is as it was before the call.
C3_UnsupportedFormat ==
    (Extracted /\ bcall.fmt # "RgbaPremul")
        => /\ bcall.result = "NotSupported"
           /\ bcall.bytes = <<>>
           /\ (bcall.op = "get_raw_pixels" => target = bcall.before)

\* C3 witness: an unsupported format asked of a target with unflushed drawing.
C3_Witness ==
    /\ bcall.op = "get_raw_pixels"
    /\ bcall.fmt = "Rgb"
    /\ bcall.result = "NotSupported"
    /\ Before.dirty
    /\ Before.cr.scale = 2

\* C6: after a successful get_raw_pixels the target's drawing context has the
\* drawing state it had before the call, the pixel_scale transform included.
C6_SwapInvisible ==
    (bcall.op = "get_raw_pixels" /\ bcall.result = "Ok")
        => Unwrap(target).cr = Before.cr

\* C7: bitmap_target returns an error result, and does not abort, when the
\* backend cannot create the surface; it returns a target only when it could.
C7_AllocationError ==
    bcall.op = "bitmap_target"
        => \/ bcall.result = "Ok" /\ IsSome(target)
           \/ bcall.result = "BackendFailure" /\ target = None

\* C10: whenever get_raw_pixels returns, with success or with an error, the
\* target's drawing context is bound to the target's own surface.
C10_ContextRebound ==
    (bcall.op = "get_raw_pixels"
       /\ bcall.result \in {"Ok", "NotSupported", "BackendFailure"})
        => Unwrap(target).cr.bound = "surface"

----------------------------------------------------------------------------
(* Claims about CoreGraphicsContext *)

DrawCalls == {"fill_path", "eo_fill_path", "stroke_path"}
Issued(name) == {i \in 1..Len(gcall.log) : gcall.log[i][1] = name}

\* C4: restore returns the clip, transform and style state to what it was at
\* the matching save (so N saves followed by N restores leave it as it was
\* before the first save), and a restore with no matching save is reported
\* as an error result. Checked under SpecCG.
C4_SaveRestoreNesting ==
    gcall.op = "restore"
        => IF IsSome(gcall.popped)
           THEN GState(ctx) = Unwrap(gcall.popped)
           ELSE gcall.result = "Err"

\* C5: filling or stroking with Brush::Gradient fails or reports NotSupported,
\* issues no backend fill or stroke, and leaves the backend's path, colours
\* and stroke state as they were before the call. Checked under SpecCG.
C5_GradientRejected ==
    (gcall.op \in {"fill", "fill_even_odd", "stroke", "stroke_styled"}
       /\ gcall.brush = Gradient)
        => /\ gcall.result \in {"panic", "NotSupported"}
           /\ \A n \in DrawCalls : Issued(n) = {}
           /\ ctx.path = gcall.before.path
           /\ ctx.fill = gcall.before.fill
           /\ ctx.stroke = gcall.before.stroke
           /\ StrokeState(ctx) = StrokeState(gcall.before)

\* The backend's name of each join and cap
BackendJoin ==
    [Miter |-> "CGLineJoinMiter", Round |-> "CGLineJoinRound",
     Bevel |-> "CGLineJoinBevel"]
BackendCap ==
    [Butt |-> "CGLineCapButt", Round |-> "CGLineCapRound",
     Square |-> "CGLineCapSquare"]

\* The stroke parameters C8 states for a width and an optional style
StatedStroke(width, style) ==
    LET s == IF IsSome(style) THEN Unwrap(style)
             ELSE StrokeStyle(None, None, None, None)
    IN  [ lineWidth  |-> width,
          lineJoin   |-> IF IsSome(s.line_join)
                         THEN BackendJoin[Unwrap(s.line_join)]
                         ELSE "CGLineJoinMiter",
          lineCap    |-> IF IsSome(s.line_cap)
                         THEN BackendCap[Unwrap(s.line_cap)]
                         ELSE "CGLineCapButt",
          miterLimit |-> IF IsSome(s.miter_limit) THEN Unwrap(s.miter_limit)
                         ELSE 10,
          dash       |-> IF IsSome(s.dash)
                         THEN [offset |-> Unwrap(s.dash)[2],
                               lengths |-> Unwrap(s.dash)[1]]
                         ELSE [offset |-> 0, lengths |-> <<>>] ]

\* C8: every stroke and stroke_styled call sets every stroke parameter, once:
\* the width, and for each of join, cap, miter limit and dash either the
\* style's value or, where the style (or the whole style) is absent, Miter,
\* Butt, 10 and the cleared dash; so the backend's stroke parameters after
\* the call are those of this call alone. Checked under SpecStroke.
C8_StrokeStyleTotal ==
    gcall.op \in {"stroke", "stroke_styled"}
        => /\ StrokeState(ctx) = StatedStroke(gcall.width, gcall.style)
           /\ \A n \in {"set_line_width", "set_line_join", "set_line_cap",
                        "set_miter_limit", "set_line_dash"} :
                Cardinality(Issued(n)) = 1

\* C8 witness: a call whose style sets the cap alone, on a context that an
\* earlier call left with a dash, another join, miter limit and width.
C8_Witness ==
    /\ gcall.op = "stroke_styled"
    /\ gcall.style = Some(StrokeStyle(None, Some("Square"), None, None))
    /\ gcall.before.dash.lengths # <<>>
    /\ gcall.before.lineJoin = "CGLineJoinBevel"
    /\ gcall.before.miterLimit # 10
    /\ gcall.before.lineWidth # gcall.width
    /\ ctx.dash.lengths = <<>>

\* The point C9 states is tracked after the first n elements of els
RECURSIVE StatedLast(_, _)
StatedLast(els, n) ==
    IF n = 0 THEN <<0, 0>>
    ELSE IF els[n][1] = "ClosePath" THEN StatedLast(els, n - 1)
    ELSE els[n][Len(els[n])]

\* last + 2/3 (ctrl - last), per coordinate
TwoThirdsFrom(from, ctrl) ==
    <<from[1] + (2 * (ctrl[1] - from[1])) \div 3,
      from[2] + (2 * (ctrl[2] - from[2])) \div 3>>

\* The backend call C9 states for element el when the tracked point is lst
StatedCall(el, lst) ==
    CASE el[1] = "MoveTo" -> <<"move_to_point", el[2][1], el[2][2]>>
      [] el[1] = "LineTo" -> <<"add_line_to_point", el[2][1], el[2][2]>>
      [] el[1] = "QuadTo" ->
            LET c1 == TwoThirdsFrom(lst, el[2])
                c2 == TwoThirdsFrom(el[3], el[2])
            IN  <<"add_curve_to_point", c1[1], c1[2], c2[1], c2[2],
                  el[3][1], el[3][2]>>
      [] el[1] = "CurveTo" ->
            <<"add_curve_to_point", el[2][1], el[2][2], el[3][1], el[3][2],
              el[4][1], el[4][2]>>
      [] el[1] = "ClosePath" -> <<"close_path">>

\* C9: path conversion has made exactly one backend path call per element
\* consumed, in order; `last` starts at (0,0), is the end point of the latest
\* MoveTo, LineTo, QuadTo or CurveTo and is left alone by ClosePath; and a
\* QuadTo(ctrl, end) is emitted as the cubic last + 2/3 (ctrl - last),
\* end + 2/3 (ctrl - end), end. Checked under SpecPath.
C9_PathConversion ==
    /\ Len(ctx.path) = pos
    /\ last = StatedLast(shape, pos)
    /\ \A i \in 1..pos : ctx.path[i] = StatedCall(shape[i], StatedLast(shape, i - 1))

\* C9 witness: a finished conversion with a QuadTo after a ClosePath after a
\* QuadTo, whose control points differ from the tracked point.
C9_Witness ==
    /\ pos = 3
    /\ Len(shape) = 3
    /\ shape[1] = QuadTo(PtA, PtB)
    /\ shape[2] = ClosePath
    /\ shape[3] = QuadTo(PtA, PtA)
    /\ ctx.path[3] = <<"add_curve_to_point", 5, 3, 3, 6, 3, 6>>

\* The draw operations C11 is about
PathOps == {"fill", "fill_even_odd", "clip", "stroke", "stroke_styled"}

\* The path calls a draw operation made, after its begin_path
PathCallNames ==
    {"move_to_point", "add_line_to_point", "add_curve_to_point", "close_path"}
PathCallsOf(log) == SelectSeq(log, LAMBDA e : e[1] \in PathCallNames)

\* C11: after each fill, fill_even_odd, clip, stroke and stroke_styled call
\* the backend's current path is empty: the operation began a new path,
\* built it from its own shape's elements alone, and consumed it in its
\* terminal backend call. Checked under SpecCG.
C11_PathEmptyBetweenCalls ==
    gcall.op \in PathOps
        => /\ ctx.path = <<>>
           /\ gcall.log[1] = <<"begin_path">>
           /\ PathCallsOf(gcall.log) =
                 [i \in 1..Len(gcall.shape) |->
                     StatedCall(gcall.shape[i], StatedLast(gcall.shape, i - 1))]
           /\ gcall.log[Len(gcall.log)][1] \in DrawCalls \cup {"clip"}

\* C11 for the calls that do not panic (those with a Solid brush, and clip)
C11_SolidOnly ==
    (gcall.op \in PathOps /\ gcall.result # "panic")
        => C11_PathEmptyBetweenCalls

====
